---- MODULE Spec2Model ----
(***************************************************************************)
(* A model of submit.py: the command-line resolver, the subject list       *)
(* reader, the per-subject job builder and the submission dispatcher.      *)
(*                                                                         *)
(* Text whose characters the program inspects (CSV cells, the time and     *)
(* email arguments, the memory argument, data file names) is a tuple of    *)
(* one-character strings; text the program only concatenates is a string.  *)
(* A path is a record [abs, parts].                                        *)
(***************************************************************************)
EXTENDS Integers, Sequences, FiniteSets, TLC

(***************************************************************************)
(* Bounds of the model.                                                    *)
(***************************************************************************)
\* the longest first column of the CSV file
MaxSubjects == 3
\* how many times in a row the tool is run on the same inputs
MaxRuns == 2

(***************************************************************************)
(* Text helpers.                                                           *)
(***************************************************************************)
Digits == {"0", "1", "2", "3", "4", "5", "6", "7", "8", "9"}

DigitVal(c) ==
    CASE c = "0" -> 0 [] c = "1" -> 1 [] c = "2" -> 2 [] c = "3" -> 3
      [] c = "4" -> 4 [] c = "5" -> 5 [] c = "6" -> 6 [] c = "7" -> 7
      [] c = "8" -> 8 [] c = "9" -> 9

DigitStr(d) ==
    CASE d = 0 -> "0" [] d = 1 -> "1" [] d = 2 -> "2" [] d = 3 -> "3"
      [] d = 4 -> "4" [] d = 5 -> "5" [] d = 6 -> "6" [] d = 7 -> "7"
      [] d = 8 -> "8" [] d = 9 -> "9"

\* the string made of the characters of cs
RECURSIVE Str(_)
Str(cs) == IF cs = <<>> THEN "" ELSE Head(cs) \o Str(Tail(cs))

\* str(n) of a non-negative Python int
RECURSIVE IntStr(_)
IntStr(n) == IF n < 10 THEN DigitStr(n) ELSE IntStr(n \div 10) \o DigitStr(n % 10)

\* the value of a run of decimal digits
RECURSIVE DigitsVal(_)
DigitsVal(cs) ==
    IF cs = <<>> THEN 0
    ELSE 10 * DigitsVal(SubSeq(cs, 1, Len(cs) - 1)) + DigitVal(cs[Len(cs)])

IsDigits(cs) == Len(cs) > 0 /\ \A k \in 1..Len(cs) : cs[k] \in Digits

Contains(cs, c) == \E k \in 1..Len(cs) : cs[k] = c

\* str.strip() for blanks
RECURSIVE Strip(_)
Strip(cs) ==
    IF cs = <<>> THEN cs
    ELSE IF Head(cs) = " " THEN Strip(Tail(cs))
    ELSE IF cs[Len(cs)] = " " THEN Strip(SubSeq(cs, 1, Len(cs) - 1))
    ELSE cs

\* str.split(sep): the segments between the separators, empty ones included
RECURSIVE Split(_, _)
Split(cs, sep) ==
    IF ~Contains(cs, sep) THEN <<cs>>
    ELSE LET k == CHOOSE j \in 1..Len(cs) :
                      cs[j] = sep /\ \A m \in 1..(j - 1) : cs[m] # sep
         IN  <<SubSeq(cs, 1, k - 1)>> \o Split(SubSeq(cs, k + 1, Len(cs)), sep)

\* whether int(cs) returns: blanks around an optionally signed run of digits
IntParses(cs) ==
    LET t == Strip(cs)
        u == IF t # <<>> /\ Head(t) \in {"+", "-"} THEN Tail(t) ELSE t
    IN  IsDigits(u)

(***************************************************************************)
(* float(text) and str(float) for decimals with at most two fractional     *)
(* digits; a float is kept exactly, in hundredths.                         *)
(***************************************************************************)
FloatOf(cs) ==
    IF Contains(cs, ".")
    THEN LET p == Split(cs, ".")
             f == p[2] \o SubSeq(<<"0", "0">>, 1, 2 - Len(p[2]))
         IN  100 * DigitsVal(p[1]) + DigitsVal(f)
    ELSE 100 * DigitsVal(cs)

\* repr of a float: the shortest decimal that reads back, never without ".d"
FloatStr(h) ==
    IntStr(h \div 100) \o "." \o
        (IF h % 10 = 0 THEN DigitStr((h % 100) \div 10)
         ELSE DigitStr((h % 100) \div 10) \o DigitStr(h % 10))

\* a value of args.mem[0]: the unconverted default string or a float
StrVal(s) == [kind |-> "str", s |-> s, h |-> 0]
FloatVal(h) == [kind |-> "float", s |-> "", h |-> h]

\* str(v) of such a value
PyStr(v) == IF v.kind = "str" THEN v.s ELSE FloatStr(v.h)

(***************************************************************************)
(* Paths and the file system.                                              *)
(***************************************************************************)
Path(abs, parts) == [abs |-> abs, parts |-> parts]

\* the working directory the tool is started in
Cwd == Path(TRUE, <<"home", "user">>)

\* os.path.join(a, b): an absolute b discards a
os_path_join(a, b) == IF b.abs THEN b ELSE Path(a.abs, a.parts \o b.parts)

\* os.path.abspath(p)
os_path_abspath(p) == IF p.abs THEN p ELSE os_path_join(Cwd, p)

RECURSIVE JoinParts(_)
JoinParts(parts) ==
    IF parts = <<>> THEN ""
    ELSE IF Len(parts) = 1 THEN parts[1]
    ELSE parts[1] \o "/" \o JoinParts(Tail(parts))

\* the text of a path
PathStr(p) == (IF p.abs THEN "/" ELSE "") \o JoinParts(p.parts)

\* os.path.exists(p) on the set d of existing directories
os_path_exists(d, p) == os_path_abspath(p) \in d

\* os.makedirs(p, exist_ok=True): p and every missing ancestor
os_makedirs(d, p) ==
    LET q == os_path_abspath(p)
    IN  d \cup {Path(TRUE, SubSeq(q.parts, 1, k)) : k \in 0..Len(q.parts)}

(***************************************************************************)
(* glob: fnmatch of the names in one directory against a pattern made of   *)
(* literal characters, the class [0-9] and the wildcard *.                 *)
(***************************************************************************)
Lit(c) == [t |-> "lit", c |-> c]
Class09 == [t |-> "class", c |-> ""]
Star == [t |-> "star", c |-> ""]
Lits(cs) == [k \in 1..Len(cs) |-> Lit(cs[k])]

RECURSIVE FnMatch(_, _)
FnMatch(pat, name) ==
    IF pat = <<>> THEN name = <<>>
    ELSE IF Head(pat).t = "star"
         THEN \E k \in 0..Len(name) :
                  FnMatch(Tail(pat), SubSeq(name, k + 1, Len(name)))
    ELSE /\ name # <<>>
         /\ IF Head(pat).t = "class" THEN Head(name) \in Digits
            ELSE Head(name) = Head(pat).c
         /\ FnMatch(Tail(pat), Tail(name))

DotNiiDot == <<".", "n", "i", "i", ".">>

\* 'MPRAGE_[0-9]*.nii.*'
GradientPattern ==
    Lits(<<"M", "P", "R", "A", "G", "E", "_">>) \o <<Class09, Star>>
        \o Lits(DotNiiDot) \o <<Star>>

\* 'HighResHippo_[0-9]*.nii.*'
FocalPattern ==
    Lits(<<"H", "i", "g", "h", "R", "e", "s", "H", "i", "p", "p", "o", "_">>)
        \o <<Class09, Star>> \o Lits(DotNiiDot) \o <<Star>>

\* glob(dir + '/' + pattern) over the data files fs: the matching paths
glob(fs, dir, pat) ==
    {PathStr(dir) \o "/" \o Str(e.name) :
        e \in {x \in fs : x.dir = os_path_abspath(dir) /\ FnMatch(pat, x.name)}}

(***************************************************************************)
(* Optional values: an absent option (None) or a given one.                *)
(***************************************************************************)
NoPath == [some |-> FALSE, v |-> Path(FALSE, <<>>)]
SomePath(q) == [some |-> TRUE, v |-> q]
NoText == [some |-> FALSE, v |-> <<>>]
SomeText(cs) == [some |-> TRUE, v |-> cs]

(***************************************************************************)
(* argparse: the value of each option after parse_args().  The default of  *)
(* -mem is the list ['4'], which argparse does not pass through type=float *)
(* (only a default that is itself a string is converted), so args.mem[0]   *)
(* is the string '4' when the option is absent and a float when given.     *)
(***************************************************************************)
DefaultAtlas == Path(FALSE, <<"ashs_atlas_upennpmc_20170810">>)
DefaultTime == <<"0", "4", ":", "0", "0", ":", "0", "0">>

args_mem(opt) == IF opt.some THEN FloatVal(FloatOf(opt.v)) ELSE StrVal("4")

parse_args(argv) ==
    [csv |-> argv.csv, root |-> argv.root, atlas |-> argv.atlas,
     data |-> argv.data, out |-> argv.out, tidy |-> argv.tidy,
     nProcs |-> argv.nProcs, mem |-> args_mem(argv.mem), time |-> argv.time,
     email |-> argv.email, noSubmit |-> argv.noSubmit]

(***************************************************************************)
(* pandas.read_csv(usecols=[0], header=None) and to_numpy().flatten(): a   *)
(* first column whose every cell is a run of digits is read as int64, and  *)
(* any other column as Python strings.                                     *)
(***************************************************************************)
StrSubject(s) == [kind |-> "str", s |-> s, n |-> 0]
IntSubject(n) == [kind |-> "int64", s |-> "", n |-> n]

read_csv(cells) ==
    IF \A k \in 1..Len(cells) : IsDigits(cells[k])
    THEN [k \in 1..Len(cells) |-> IntSubject(DigitsVal(cells[k]))]
    ELSE [k \in 1..Len(cells) |-> StrSubject(Str(cells[k]))]

(***************************************************************************)
(* The state.                                                              *)
(***************************************************************************)
VARIABLES
    args,           \* the parsed command line
    environ,        \* os.environ['ASHS_ROOT'], when set
    csvFile,        \* the CSV file: whether it exists, parses, and its first column
    files,          \* the data files on disk: records [dir, name]
    dirs,           \* the directories on disk
    scripts,        \* the script files on disk: path text -> lines
    pc,             \* the statement the interpreter is at
    err,            \* the exception that ended the run, "" when none
    mem,            \* mem
    time,           \* time
    ashsRoot,       \* ashsRoot
    ashsAtlasPath,  \* ashsAtlasPath
    dataDir,        \* dataDir
    parentOutDir,   \* parentOutDir
    subjects,       \* subjects
    idx,            \* the position of the for loop in subjects
    gradientFiles,  \* gradientFiles
    focalFiles,     \* focalFiles
    p,              \* the sbatch child process
    log,            \* what this run has done so far, in order
    run,            \* the number of the current run
    snap            \* the disk as the previous run left it

inputs == <<args, environ, csvFile, files>>
resolved == <<mem, time, ashsRoot, ashsAtlasPath, dataDir, parentOutDir>>
loopvars == <<subjects, idx, gradientFiles, focalFiles>>
vars == <<inputs, resolved, loopvars, dirs, scripts, pc, err, p, log, run, snap>>

NoProcess == [state |-> "none", returncode |-> 0, argv |-> "", cwd |-> ""]

\* an entry of log: what was done, for which position of the subject list
Event(ev, i, file, cwd) == [ev |-> ev, i |-> i, file |-> file, cwd |-> cwd]

\* the run ends with exception e
Raise(e) == pc' = "failed" /\ err' = e

(***************************************************************************)
(* Validation of the command line (lines 35-86) and the subject list       *)
(* reader (lines 89-90).                                                   *)
(***************************************************************************)
\* lines 35-38: the CSV file must exist
CheckCsv ==
    /\ pc = "csv"
    /\ IF csvFile.exists THEN pc' = "mem" /\ UNCHANGED err ELSE Raise("IOError")
    /\ UNCHANGED <<inputs, resolved, loopvars, dirs, scripts, p, log, run, snap>>

\* lines 40-42: mem = str(args.mem[0]) + 'G'
SetMem ==
    /\ pc = "mem"
    /\ mem' = PyStr(args.mem) \o "G"
    /\ pc' = "time"
    /\ UNCHANGED <<inputs, time, ashsRoot, ashsAtlasPath, dataDir, parentOutDir,
                   loopvars, dirs, scripts, err, p, log, run, snap>>

\* lines 44-50: every ':'-separated segment of the stripped time must be an int
CheckTime ==
    /\ pc = "time"
    /\ LET stripTime == Strip(args.time)
           timeHourSplit == Split(stripTime, ":")
       IN  IF \A k \in 1..Len(timeHourSplit) : IntParses(timeHourSplit[k])
           THEN time' = Str(stripTime) /\ pc' = "email" /\ UNCHANGED err
           ELSE Raise("IOError") /\ UNCHANGED time
    /\ UNCHANGED <<inputs, mem, ashsRoot, ashsAtlasPath, dataDir, parentOutDir,
                   loopvars, dirs, scripts, p, log, run, snap>>

\* lines 52-56: an email, when given, must contain '@'
CheckEmail ==
    /\ pc = "email"
    /\ IF args.email.some /\ ~Contains(args.email.v, "@")
       THEN Raise("IOError")
       ELSE pc' = "root" /\ UNCHANGED err
    /\ UNCHANGED <<inputs, resolved, loopvars, dirs, scripts, p, log, run, snap>>

\* lines 58-66: the root from -root (which must exist) or from ASHS_ROOT
\* (which must be set)
ResolveRoot ==
    /\ pc = "root"
    /\ IF ~args.root.some
       THEN IF environ.some
            THEN ashsRoot' = environ.v /\ pc' = "atlas" /\ UNCHANGED err
            ELSE Raise("IOError") /\ UNCHANGED ashsRoot
       ELSE IF ~os_path_exists(dirs, args.root.v)
            THEN Raise("IOError") /\ UNCHANGED ashsRoot
            ELSE /\ ashsRoot' = os_path_abspath(args.root.v)
                 /\ pc' = "atlas" /\ UNCHANGED err
    /\ UNCHANGED <<inputs, mem, time, ashsAtlasPath, dataDir, parentOutDir,
                   loopvars, dirs, scripts, p, log, run, snap>>

\* lines 68-71: the atlas directory, root joined with the atlas name, must exist
ResolveAtlas ==
    /\ pc = "atlas"
    /\ LET path == os_path_join(ashsRoot, args.atlas)
       IN  IF ~os_path_exists(dirs, path)
           THEN Raise("IOError") /\ UNCHANGED ashsAtlasPath
           ELSE ashsAtlasPath' = path /\ pc' = "data" /\ UNCHANGED err
    /\ UNCHANGED <<inputs, mem, time, ashsRoot, dataDir, parentOutDir,
                   loopvars, dirs, scripts, p, log, run, snap>>

\* lines 73-78: the data directory, -data or root/data, must exist
ResolveData ==
    /\ pc = "data"
    /\ LET d == IF ~args.data.some
                THEN os_path_join(ashsRoot, Path(FALSE, <<"data">>))
                ELSE os_path_abspath(args.data.v)
       IN  IF ~os_path_exists(dirs, d)
           THEN Raise("IOError") /\ UNCHANGED dataDir
           ELSE dataDir' = d /\ pc' = "out" /\ UNCHANGED err
    /\ UNCHANGED <<inputs, mem, time, ashsRoot, ashsAtlasPath, parentOutDir,
                   loopvars, dirs, scripts, p, log, run, snap>>

\* lines 80-86: the output directory, -out or root/outputs, is created; the
\* operating system may refuse
ResolveOut ==
    /\ pc = "out"
    /\ LET d == IF ~args.out.some
                THEN os_path_join(ashsRoot, Path(FALSE, <<"outputs">>))
                ELSE os_path_abspath(args.out.v)
       IN  \E ok \in BOOLEAN :
               IF ok
               THEN /\ parentOutDir' = d
                    /\ dirs' = os_makedirs(dirs, d)
                    /\ pc' = "read" /\ UNCHANGED err
               ELSE Raise("OSError") /\ UNCHANGED <<parentOutDir, dirs>>
    /\ UNCHANGED <<inputs, mem, time, ashsRoot, ashsAtlasPath, dataDir,
                   loopvars, scripts, p, log, run, snap>>

\* lines 89-96: the first column becomes subjects and the loop starts
ReadCsv ==
    /\ pc = "read"
    /\ IF ~csvFile.parsable
       THEN Raise("EmptyDataError") /\ UNCHANGED <<subjects, idx>>
       ELSE /\ subjects' = read_csv(csvFile.cells)
            /\ idx' = 1
            /\ pc' = IF csvFile.cells = <<>> THEN "done" ELSE "glob"
            /\ UNCHANGED err
    /\ UNCHANGED <<inputs, resolved, gradientFiles, focalFiles, dirs, scripts,
                   p, log, run, snap>>

(***************************************************************************)
(* The per-subject job builder (lines 96-150).                             *)
(***************************************************************************)
\* line 112: subjectOutDir
subjectOutDir(s) == os_path_join(parentOutDir, Path(FALSE, <<s>>))

\* line 116: sbatchFileName
sbatchFileName(s) == "sbatch_" \o s \o ".script"

\* line 117: sbatchFilePath
sbatchFilePath(s) == PathStr(subjectOutDir(s)) \o "/" \o sbatchFileName(s)

\* lines 118-125: ashsCmd, with g and f the matched gradient and focal files
ashsCmd(s, g, f) ==
    "srun " \o PathStr(os_path_join(ashsRoot, Path(FALSE, <<"bin", "ashs_main.sh">>)))
        \o " -a " \o PathStr(ashsAtlasPath)
        \o " -g " \o g \o " -f " \o f
        \o " -w " \o PathStr(subjectOutDir(s))
        \o " -I " \o s
        \o (IF args.tidy THEN " -T" ELSE "")

\* lines 130-150: the lines written to the script, one per f.write
ScriptLines(s, g, f) ==
    <<"#!/bin/bash", "", "#Slurm directives:", "",
      "#SBATCH -n " \o IntStr(args.nProcs),
      "#SBATCH --mem=" \o mem,
      "#SBATCH --time " \o time,
      "",
      "#SBATCH -J ASHS_" \o s,
      "#SBATCH -o ASHS_" \o s \o "-%j.out",
      "#SBATCH -e ASHS_" \o s \o "-%j.err",
      "">>
    \o (IF args.email.some
        THEN <<"#SBATCH --mail-type=FAIL,REQUEUE",
               "#SBATCH --mail-user=" \o Str(args.email.v), "">>
        ELSE <<>>)
    \o <<"#Commands to run:", "", ashsCmd(s, g, f)>>

\* gradientFiles[0], focalFiles[0]: the one element of a list of length 1
First(matches) == CHOOSE x \in matches : TRUE

\* the script of the subject the loop is at
CurrentScript ==
    ScriptLines(subjects[idx].s, First(gradientFiles), First(focalFiles))

\* the for loop moves to the next subject, or ends
NextSubject ==
    /\ idx' = idx + 1
    /\ pc' = IF idx < Len(subjects) THEN "glob" ELSE "done"

\* lines 96-110: match the two patterns in <dataDir>/<subject>; os.path.join
\* raises TypeError for a subject that is not a string
Glob ==
    /\ pc = "glob"
    /\ LET subject == subjects[idx]
       IN  IF subject.kind # "str"
           THEN Raise("TypeError") /\ UNCHANGED <<gradientFiles, focalFiles, log>>
           ELSE LET d == os_path_join(dataDir, Path(FALSE, <<subject.s>>))
                    g == glob(files, d, GradientPattern)
                    f == glob(files, d, FocalPattern)
                IN  /\ gradientFiles' = g
                    /\ focalFiles' = f
                    /\ UNCHANGED err
                    /\ IF Cardinality(g) # 1 \/ Cardinality(f) # 1
                       THEN /\ pc' = "prompt"
                            /\ log' = log \o <<Event("glob", idx, "", ""),
                                               Event("prompt", idx, "", "")>>
                       ELSE /\ pc' = "mkdir"
                            /\ log' = Append(log, Event("glob", idx, "", ""))
    /\ UNCHANGED <<inputs, resolved, subjects, idx, dirs, scripts, p, run, snap>>

\* lines 109-110: input() returns when the operator presses Enter, and the
\* subject is skipped; at end of input it raises EOFError
Ack ==
    /\ pc = "prompt"
    /\ \E entered \in BOOLEAN :
           IF entered
           THEN NextSubject /\ UNCHANGED err
           ELSE Raise("EOFError") /\ UNCHANGED idx
    /\ UNCHANGED <<inputs, resolved, subjects, gradientFiles, focalFiles, dirs,
                   scripts, p, log, run, snap>>

\* MakeSubjectDir with the failure caught and the subject skipped
MakeSubjectDirCaught ==
    /\ pc = "mkdir"
    /\ \E ok \in BOOLEAN :
           IF ok
           THEN /\ dirs' = os_makedirs(dirs, subjectOutDir(subjects[idx].s))
                /\ log' = Append(log, Event("mkdir", idx, "", ""))
                /\ pc' = "open" /\ UNCHANGED <<err, idx>>
           ELSE NextSubject /\ err' = "OSError" /\ UNCHANGED <<dirs, log>>
    /\ UNCHANGED <<inputs, resolved, subjects, gradientFiles, focalFiles,
                   scripts, p, run, snap>>

\* lines 112-113: os.makedirs(subjectOutDir, exist_ok=True)
MakeSubjectDir ==
    /\ pc = "mkdir"
    /\ \E ok \in BOOLEAN :
           IF ok
           THEN /\ dirs' = os_makedirs(dirs, subjectOutDir(subjects[idx].s))
                /\ log' = Append(log, Event("mkdir", idx, "", ""))
                /\ pc' = "open" /\ UNCHANGED err
           ELSE Raise("OSError") /\ UNCHANGED <<dirs, log>>
    /\ UNCHANGED <<inputs, resolved, loopvars, scripts, p, run, snap>>

\* open(path, 'a'): an existing file keeps its content
open_a(fs, path) == IF path \in DOMAIN fs THEN fs ELSE (path :> <<>>) @@ fs

\* open(path, 'w') on the script files fs: the file is created or truncated
open_w(fs, path) == (path :> <<>>) @@ fs

\* f.write of lines at the end of the open file
write(fs, path, lines) == (path :> (fs[path] \o lines)) @@ fs

\* lines 116-128: open the script for writing
OpenScript ==
    /\ pc = "open"
    /\ \E ok \in BOOLEAN :
           IF ok
           THEN /\ scripts' = open_w(scripts, sbatchFilePath(subjects[idx].s))
                /\ pc' = "write" /\ UNCHANGED err
           ELSE Raise("OSError") /\ UNCHANGED scripts
    /\ UNCHANGED <<inputs, resolved, loopvars, dirs, p, log, run, snap>>

\* lines 130-150: write the lines and close; a write that fails leaves the
\* lines written before it
WriteScript ==
    /\ pc = "write"
    /\ LET path == sbatchFilePath(subjects[idx].s)
           lines == CurrentScript
       IN  \E n \in 0..Len(lines) :
               /\ scripts' = write(scripts, path, SubSeq(lines, 1, n))
               /\ IF n = Len(lines)
                  THEN /\ log' = Append(log, Event("write", idx, path, ""))
                       /\ pc' = "submit" /\ UNCHANGED err
                  ELSE Raise("OSError") /\ UNCHANGED log
    /\ UNCHANGED <<inputs, resolved, loopvars, dirs, p, run, snap>>

(***************************************************************************)
(* The submission dispatcher (lines 152-155).                              *)
(***************************************************************************)
\* the exit statuses sbatch may return
ExitStatuses == {0, 1}

\* lines 152-154: unless -noSubmit, start sbatch on the script in the
\* subject's output directory; Popen raises when sbatch cannot be started
Submit ==
    /\ pc = "submit"
    /\ LET s == subjects[idx].s
       IN  IF args.noSubmit
           THEN NextSubject /\ UNCHANGED <<p, log, err>>
           ELSE \E ok \in BOOLEAN :
                    IF ok
                    THEN /\ p' = [state |-> "running", returncode |-> 0,
                                  argv |-> "sbatch " \o sbatchFileName(s),
                                  cwd |-> PathStr(subjectOutDir(s))]
                         /\ log' = Append(log, Event("submit", idx, sbatchFileName(s),
                                                     PathStr(subjectOutDir(s))))
                         /\ pc' = "wait"
                         /\ UNCHANGED <<idx, err>>
                    ELSE Raise("OSError") /\ UNCHANGED <<p, log, idx>>
    /\ UNCHANGED <<inputs, resolved, subjects, gradientFiles, focalFiles, dirs,
                   scripts, run, snap>>

\* Wait with the status checked: a non-zero status raises
WaitChecked ==
    /\ pc = "wait"
    /\ \E status \in ExitStatuses :
           /\ p' = [p EXCEPT !.state = "exited", !.returncode = status]
           /\ IF status = 0 THEN NextSubject /\ UNCHANGED err
              ELSE Raise("CalledProcessError") /\ UNCHANGED idx
    /\ log' = Append(log, Event("exit", idx, "", ""))
    /\ UNCHANGED <<inputs, resolved, subjects, gradientFiles, focalFiles, dirs,
                   scripts, run, snap>>

\* line 155: p.wait() returns when sbatch exits; its status is not looked at
Wait ==
    /\ pc = "wait"
    /\ \E status \in ExitStatuses :
           p' = [p EXCEPT !.state = "exited", !.returncode = status]
    /\ log' = Append(log, Event("exit", idx, "", ""))
    /\ NextSubject
    /\ UNCHANGED <<inputs, resolved, subjects, gradientFiles, focalFiles, dirs,
                   scripts, err, run, snap>>

(***************************************************************************)
(* The tool is started again on the same command line, environment and     *)
(* data once a run has completed.                                          *)
(***************************************************************************)
NoDir == Path(FALSE, <<>>)

Rerun ==
    /\ pc = "done"
    /\ run < MaxRuns
    /\ run' = run + 1
    /\ snap' = [scripts |-> scripts, dirs |-> dirs]
    /\ pc' = "csv" /\ err' = ""
    /\ mem' = "" /\ time' = ""
    /\ ashsRoot' = NoDir /\ ashsAtlasPath' = NoDir
    /\ dataDir' = NoDir /\ parentOutDir' = NoDir
    /\ subjects' = <<>> /\ idx' = 0
    /\ gradientFiles' = {} /\ focalFiles' = {}
    /\ p' = NoProcess /\ log' = <<>>
    /\ UNCHANGED <<inputs, dirs, scripts>>

Next ==
    \/ CheckCsv
    \/ SetMem
    \/ CheckTime
    \/ CheckEmail
    \/ ResolveRoot
    \/ ResolveAtlas
    \/ ResolveData
    \/ ResolveOut
    \/ ReadCsv
    \/ Glob
    \/ Ack
    \/ MakeSubjectDir
    \/ OpenScript
    \/ WriteScript
    \/ Submit
    \/ Wait
    \/ Rerun

(***************************************************************************)
(* The inputs the model is run on.                                         *)
(***************************************************************************)
RootDir == Path(TRUE, <<"opt", "ashs">>)
MissingRoot == Path(TRUE, <<"opt", "nope">>)
OtherAtlas == Path(TRUE, <<"srv", "atlas">>)
MissingAtlas == Path(FALSE, <<"no_atlas">>)
OtherData == Path(TRUE, <<"srv", "data">>)
MissingData == Path(TRUE, <<"srv", "nodata">>)
OutArg == Path(FALSE, <<"out">>)
CsvArg == Path(FALSE, <<"subjects.csv">>)

\* the directories that exist before the first run
BaseDirs ==
    UNION {os_makedirs({}, d) :
              d \in {Cwd, os_path_join(RootDir, DefaultAtlas),
                     os_path_join(RootDir, Path(FALSE, <<"data">>)),
                     OtherAtlas, OtherData}}

DataDirs == {os_path_join(RootDir, Path(FALSE, <<"data">>)), OtherData}

\* data file names
GradA == <<"M", "P", "R", "A", "G", "E", "_", "0", "0", "1", ".", "n", "i", "i", ".", "g", "z">>
GradB == <<"M", "P", "R", "A", "G", "E", "_", "2", ".", "n", "i", "i", ".", "g", "z">>
FocalA == <<"H", "i", "g", "h", "R", "e", "s", "H", "i", "p", "p", "o", "_", "0", "0", "1",
            ".", "n", "i", "i", ".", "g", "z">>
\* matched by neither pattern: no '.' after '.nii', no digit after '_'
PlainNii == <<"M", "P", "R", "A", "G", "E", "_", "3", ".", "n", "i", "i">>
NoDigit == <<"H", "i", "g", "h", "R", "e", "s", "H", "i", "p", "p", "o", "_", "x",
             ".", "n", "i", "i", ".", "g", "z">>

Valid == {GradA, FocalA, PlainNii}
TwoGradient == {GradA, GradB, FocalA}
NoFocal == {GradA, NoDigit}

\* the data files of a layout: subject directory name -> file names
DataFiles(layout) ==
    UNION {{[dir |-> os_path_join(d, Path(FALSE, <<name>>)), name |-> f] :
               f \in layout[name]} : d \in DataDirs, name \in DOMAIN layout}

\* the layout with files a, b, c in the directories S1, S2, 101
LayoutOf(a, b, c) == ("S1" :> a) @@ ("S2" :> b) @@ ("101" :> c)

\* first-column cells
CellS1 == <<"S", "1">>
CellS2 == <<"S", "2">>
Cell101 == <<"1", "0", "1">>
Cells == {CellS1, CellS2, Cell101}

Columns == UNION {[1..n -> Cells] : n \in 1..MaxSubjects}

CsvOf(cells) == [exists |-> TRUE, parsable |-> TRUE, cells |-> cells]
CsvMissing == [exists |-> FALSE, parsable |-> FALSE, cells |-> <<>>]
CsvEmpty == [exists |-> TRUE, parsable |-> FALSE, cells |-> <<>>]

BadTime == <<"4", ":", "0", "a", ":", "0", "0">>
ShortTime == <<" ", "9", "0", " ">>
GoodEmail == <<"a", "@", "b">>
BadEmail == <<"a", "b">>

\* the command line with every option at its default, -root and -out given
BaseArgv ==
    [csv |-> CsvArg, root |-> SomePath(RootDir), atlas |-> DefaultAtlas,
     data |-> NoPath, out |-> SomePath(OutArg), tidy |-> FALSE, nProcs |-> 1,
     mem |-> NoText, time |-> DefaultTime, email |-> NoText, noSubmit |-> FALSE]

\* a script left by an earlier use of the output directory
StaleDir == os_path_join(os_path_abspath(OutArg), Path(FALSE, <<"S1">>))
StalePath == PathStr(StaleDir) \o "/sbatch_S1.script"
NoScripts == [x \in {} |-> <<>>]
StaleScripts == (StalePath :> <<"#!/bin/bash", "#stale">>)

InitWith(argvs, envs, csvs, layouts, stale) ==
    /\ args \in {parse_args(a) : a \in argvs}
    /\ environ \in envs
    /\ csvFile \in csvs
    /\ files \in {DataFiles(l) : l \in layouts}
    /\ \E st \in stale :
           IF st THEN scripts = StaleScripts /\ dirs = os_makedirs(BaseDirs, StaleDir)
           ELSE scripts = NoScripts /\ dirs = BaseDirs
    /\ pc = "csv" /\ err = ""
    /\ mem = "" /\ time = ""
    /\ ashsRoot = NoDir /\ ashsAtlasPath = NoDir
    /\ dataDir = NoDir /\ parentOutDir = NoDir
    /\ subjects = <<>> /\ idx = 0
    /\ gradientFiles = {} /\ focalFiles = {}
    /\ p = NoProcess /\ log = <<>>
    /\ run = 1
    /\ snap = [scripts |-> NoScripts, dirs |-> {}]

\* the per-subject loop: every first column, every data layout, with and
\* without -noSubmit, over an empty or a used output directory
Init ==
    InitWith({[BaseArgv EXCEPT !.noSubmit = b] : b \in BOOLEAN},
             {NoPath},
             {CsvOf(c) : c \in Columns},
             {LayoutOf(a, b, c) :
                 a \in {Valid, TwoGradient}, b \in {Valid, NoFocal}, c \in {Valid, {}}},
             BOOLEAN)

Spec == Init /\ [][Next]_vars

\* the resolver: every combination of a missing, empty or good CSV file, a
\* good or malformed time and email, the root from the flag, the environment
\* or neither, existing or not, and the atlas, data and output options
InitStartup ==
    InitWith({[BaseArgv EXCEPT !.time = t, !.email = e, !.root = r, !.atlas = a,
                               !.data = d, !.out = o] :
                 t \in {DefaultTime, BadTime, ShortTime},
                 e \in {NoText, SomeText(GoodEmail), SomeText(BadEmail)},
                 r \in {NoPath, SomePath(RootDir), SomePath(MissingRoot)},
                 a \in {DefaultAtlas, MissingAtlas, OtherAtlas},
                 d \in {NoPath, SomePath(OtherData), SomePath(MissingData)},
                 o \in {NoPath, SomePath(OutArg)}},
             {NoPath, SomePath(RootDir), SomePath(MissingRoot)},
             {CsvMissing, CsvEmpty, CsvOf(<<CellS1, CellS2>>)},
             {LayoutOf(Valid, NoFocal, {})},
             {FALSE})

SpecStartup == InitStartup /\ [][Next]_vars

\* the script text: the memory, processor, time, email and tidy options
MemTexts == {<<"4">>, <<"8", ".", "5">>, <<"4", ".", "2", "5">>}

InitRender ==
    InitWith({[BaseArgv EXCEPT !.mem = m, !.nProcs = n, !.time = t, !.email = e,
                               !.tidy = td, !.noSubmit = ns] :
                 m \in {NoText} \cup {SomeText(x) : x \in MemTexts},
                 n \in {1, 4},
                 t \in {DefaultTime, ShortTime},
                 e \in {NoText, SomeText(GoodEmail)},
                 td \in BOOLEAN, ns \in BOOLEAN},
             {NoPath},
             {CsvOf(<<CellS1>>), CsvOf(<<CellS1, CellS2>>)},
             {LayoutOf(Valid, NoFocal, {})},
             {FALSE})

SpecRender == InitRender /\ [][Next]_vars

(***************************************************************************)
(* What the claims speak of.  A row of the CSV file is named by the text   *)
(* of its first cell; its data and output directories carry that name.     *)
(***************************************************************************)
Rows == 1..Len(csvFile.cells)
RowName(i) == Str(csvFile.cells[i])
RowDataDir(i) == os_path_join(dataDir, Path(FALSE, <<RowName(i)>>))
RowOutDir(i) == PathStr(parentOutDir) \o "/" \o RowName(i)
RowScriptName(i) == "sbatch_" \o RowName(i) \o ".script"
RowScriptPath(i) == RowOutDir(i) \o "/" \o RowScriptName(i)

\* exactly one file of the row's data directory matches each pattern
OneOfEach(i) ==
    /\ Cardinality(glob(files, RowDataDir(i), GradientPattern)) = 1
    /\ Cardinality(glob(files, RowDataDir(i), FocalPattern)) = 1

\* how often the run has done ev for row i
Count(ev, i) == Cardinality({k \in 1..Len(log) : log[k].ev = ev /\ log[k].i = i})

\* the run is over and neither the operating system nor the operator cut it
\* short: the loop ran to its end, or the program itself raised TypeError
RunOver == pc = "done" \/ (pc = "failed" /\ err = "TypeError")

\* the statements before the for loop
StartupLabels == {"csv", "mem", "time", "email", "root", "atlas", "data", "out", "read"}

\* C1: at the end of a run without -noSubmit, every row whose data directory
\* has exactly one gradient and one focal file has had its script written
\* once and sbatch invoked exactly once, on sbatch_<subject>.script in
\* <outDir>/<subject>.
C1_ValidRowsWrittenAndSubmittedOnce ==
    (RunOver /\ ~args.noSubmit) =>
        \A i \in Rows : OneOfEach(i) =>
            /\ Count("write", i) = 1
            /\ RowScriptPath(i) \in DOMAIN scripts
            /\ Count("submit", i) = 1
            /\ \A k \in 1..Len(log) :
                   (log[k].ev = "submit" /\ log[k].i = i) =>
                       log[k].file = RowScriptName(i) /\ log[k].cwd = RowOutDir(i)

\* C2: at the end of a run, every row for which a pattern matches no file or
\* several has had no directory made, no script written and no submission,
\* and the operator was prompted for it exactly once; the rows after it were
\* processed (the run went on to the end of the list).
C2_BadRowsSkippedAfterOnePrompt ==
    RunOver =>
        \A i \in Rows : ~OneOfEach(i) =>
            /\ Count("prompt", i) = 1
            /\ Count("mkdir", i) = 0
            /\ Count("write", i) = 0
            /\ Count("submit", i) = 0
            /\ \A j \in Rows : j > i => Count("glob", j) = 1

\* C3: with -noSubmit no state of the run has a submission, and at the end
\* of the run every row with exactly one match for each pattern has its
\* script written.
C3_NoSubmitWritesButNeverSubmits ==
    args.noSubmit =>
        /\ \A k \in 1..Len(log) : log[k].ev # "submit"
        /\ p.state = "none"
        /\ RunOver =>
               \A i \in Rows : OneOfEach(i) =>
                   Count("write", i) = 1 /\ RowScriptPath(i) \in DOMAIN scripts

\* C7: once read, subjects is the first column as strings, in file order,
\* duplicates kept, whatever the cells contain.
C7_SubjectsAreTheCellsAsStrings ==
    pc \notin StartupLabels /\ subjects # <<>> =>
        subjects = [k \in Rows |-> StrSubject(RowName(k))]

(***************************************************************************)
(* The command line as the operator gave it, for the claims about the      *)
(* resolver.                                                               *)
(***************************************************************************)
RootGiven == args.root.some \/ environ.some
RootPath == IF args.root.some THEN args.root.v ELSE environ.v

\* q existed when the tool was started
ExistedAtStart(q) == os_path_exists(BaseDirs, q)

TimeIsInts ==
    LET seg == Split(Strip(args.time), ":")
    IN  \A k \in 1..Len(seg) : IntParses(seg[k])

RootMissing == ~RootGiven \/ ~ExistedAtStart(RootPath)

\* a precondition of the run does not hold
StartupViolated ==
    \/ ~csvFile.exists
    \/ ~TimeIsInts
    \/ args.email.some /\ ~Contains(args.email.v, "@")
    \/ RootMissing
    \/ ~ExistedAtStart(os_path_join(RootPath, args.atlas))
    \/ ~ExistedAtStart(IF args.data.some THEN args.data.v
                       ELSE os_path_join(RootPath, Path(FALSE, <<"data">>)))
    \/ ~csvFile.parsable

\* C4: when a precondition of the run is violated, the run never reaches the
\* loop and never completes: nothing is matched, prompted for, written or
\* submitted, and no directory but the output directory is made.
C4_ViolatedPreconditionAbortsBeforeAnySubject ==
    StartupViolated =>
        /\ pc \in StartupLabels \cup {"failed"}
        /\ log = <<>>
        /\ scripts = NoScripts
        /\ p.state = "none"
        /\ dirs \subseteq os_makedirs(BaseDirs, parentOutDir)

\* C6: the root is the -root flag when given and ASHS_ROOT otherwise, and
\* when neither is given or the root does not exist the resolver fails: the
\* run never gets to read the subject list, whatever the other options are.
C6_MissingRootFailsResolution ==
    /\ pc \in {"atlas", "data", "out", "read"} =>
           ashsRoot = IF args.root.some THEN os_path_abspath(args.root.v)
                      ELSE environ.v
    /\ RootMissing =>
           /\ pc \in (StartupLabels \ {"read"}) \cup {"failed"}
           /\ subjects = <<>>

\* '%.1f' of a float kept in hundredths (a tie goes to the even digit)
OneDecimal(h) ==
    LET t == h \div 10
        r == h % 10
        u == IF r > 5 \/ (r = 5 /\ t % 2 = 1) THEN t + 1 ELSE t
    IN  IntStr(u \div 10) \o "." \o DigitStr(u % 10)

\* the memory in gigabytes the operator asked for, in hundredths: 4 by default
MemAsked == IF args.mem.kind = "float" THEN args.mem.h ELSE 400

AllDefaults ==
    /\ args.mem.kind = "str" /\ args.nProcs = 1
    /\ args.time = DefaultTime /\ ~args.email.some /\ ~args.tidy

HasLine(lines, l) == \E n \in 1..Len(lines) : lines[n] = l

\* C5: every script the run has written gives the memory as the number with
\* one decimal place and 'G', the default included: with every option at
\* its default the script of S1 names job ASHS_S1 and has '-n 1',
\* '--mem=4.0G' and '--time 04:00:00'.
C5_MemoryHasOneDecimal ==
    \A k \in 1..Len(log) : log[k].ev = "write" =>
        LET lines == scripts[log[k].file]
        IN  /\ HasLine(lines, "#SBATCH --mem=" \o OneDecimal(MemAsked) \o "G")
            /\ (AllDefaults /\ RowName(log[k].i) = "S1") =>
                   /\ HasLine(lines, "#SBATCH -J ASHS_S1")
                   /\ HasLine(lines, "#SBATCH -n 1")
                   /\ HasLine(lines, "#SBATCH --mem=4.0G")
                   /\ HasLine(lines, "#SBATCH --time 04:00:00")

(***************************************************************************)
(* Claims about the order of the run, its failures and its repetition.     *)
(***************************************************************************)
\* C8: when the tool has been run again on the same inputs and that run has
\* completed, the script files are the ones the run before left, each with
\* the same lines: none has grown, none is new.
C8_SecondRunLeavesSameScripts ==
    (run > 1 /\ pc = "done") => scripts = snap.scripts

\* a second run has completed and has rewritten a script
C8_Witness ==
    /\ run > 1 /\ pc = "done"
    /\ \E k \in 1..Len(log) : log[k].ev = "write"
    /\ StalePath \in DOMAIN scripts

\* C9: the rows are processed one at a time in list order: what the run has
\* done is ordered by row and goes no further than the row the loop is at;
\* sbatch is started only from the statement after the script of that row
\* was written in full; while sbatch runs the tool only waits; and whatever
\* status sbatch exits with, the loop moves to the next row.
C9_StrictlySequential ==
    /\ [](p.state = "running" => pc = "wait")
    /\ [](\A k \in 1..Len(log) :
              /\ log[k].i <= idx
              /\ k < Len(log) => log[k].i <= log[k + 1].i
              /\ log[k].ev = "glob" =>
                     \A j \in 1..(log[k].i - 1) : Count("glob", j) = 1)
    /\ [][/\ (pc' = "wait" /\ pc # "wait") =>
                 /\ pc = "submit"
                 /\ log # <<>>
                 /\ log[Len(log)].ev = "write" /\ log[Len(log)].i = idx
                 /\ scripts[sbatchFilePath(subjects[idx].s)] = CurrentScript
          /\ pc = "wait" =>
                 /\ pc' = (IF idx < Len(subjects) THEN "glob" ELSE "done")
                 /\ idx' = idx + 1
                 /\ p'.state = "exited"
                 /\ err' = err
          /\ pc' = "glob" => p'.state # "running"
         ]_vars

\* sbatch has exited with a failure status and the next row is being matched
C9_Witness ==
    /\ pc = "glob" /\ idx = 2
    /\ p.state = "exited" /\ p.returncode = 1
    /\ Count("write", 1) = 1 /\ Count("submit", 1) = 1

\* the statements of the loop that the operating system may fail
FallibleLabels == {"mkdir", "open", "write", "submit"}

\* C10: making the directory, opening and writing the script and starting
\* sbatch each either succeed or end the run; a run that has ended does
\* nothing more, so no later row is matched, prompted for, written or
\* submitted; and the step that ends the run undoes nothing: the log of
\* what was done, the directories and the scripts of the other subjects
\* stay as they are.
C10_FailureEndsRunWithoutRollback ==
    /\ [](err # "" => pc = "failed")
    /\ [](pc = "failed" => \A k \in 1..Len(log) : log[k].i <= idx)
    /\ [][/\ pc = "failed" =>
                 /\ pc' = "failed" /\ idx' = idx /\ log' = log
                 /\ scripts' = scripts /\ dirs' = dirs /\ p' = p
          /\ pc = "mkdir" =>
                 \/ pc' = "failed"
                 \/ pc' = "open" /\ os_path_exists(dirs', subjectOutDir(subjects[idx].s))
          /\ pc = "open" => pc' \in {"failed", "write"}
          /\ pc = "write" =>
                 \/ pc' = "failed"
                 \/ /\ pc' = "submit"
                    /\ scripts'[sbatchFilePath(subjects[idx].s)] = CurrentScript
          /\ (pc = "submit" /\ ~args.noSubmit) =>
                 \/ pc' = "failed"
                 \/ pc' = "wait" /\ p'.state = "running"
          /\ (pc \in FallibleLabels /\ pc' = "failed") =>
                 /\ err' = "OSError"
                 /\ idx' = idx /\ log' = log /\ dirs' = dirs /\ p' = p
                 /\ DOMAIN scripts' = DOMAIN scripts
                 /\ \A f \in DOMAIN scripts :
                        f # sbatchFilePath(subjects[idx].s) => scripts'[f] = scripts[f]
         ]_vars

\* the run has failed at the second row after the first was submitted, and
\* a third row is left unprocessed
C10_Witness ==
    /\ pc = "failed" /\ err = "OSError"
    /\ idx = 2 /\ Len(subjects) = 3
    /\ Count("submit", 1) = 1
    /\ RowScriptPath(1) \in DOMAIN scripts
    /\ Count("glob", 3) = 0

====
